---- MODULE Spec2Model ----
(***************************************************************************)
(* FactoryContainer (src/FactoryContainer.hpp): a registry mapping an      *)
(* interface identity to a factory, and a recursive resolver that threads  *)
(* an ancestor list through the nested resolves to detect cycles.          *)
(*                                                                         *)
(* A shared_ptr is modelled by the identity of the object it owns together *)
(* with the (immutable) record of how that object was constructed: its     *)
(* implementation type and the handles its constructor received.           *)
(***************************************************************************)
EXTENDS Integers, Sequences, FiniteSets, TLC

\* ------------------------------------------------------------- universe

\* Interface types used as template argument I.
Iface == {"A", "B", "C"}

\* Concrete implementation types used as template argument T.
\* The constructor of TX may throw; the constructor of TA never does.
Impl == {"TA", "TX"}
ThrowingImpl == {"TX"}

\* Dependency lists used as template arguments Arguments... : none, one
\* dependency, two dependencies.
DepLists == {<<>>, <<"A">>, <<"B">>, <<"B", "C">>}

\* The argument positions of the dependency lists.
ArgPositions == UNION {DOMAIN d : d \in DepLists}

\* Caller threads.  The sequential specification runs MainThread only.
Threads == {1, 2}
MainThread == 1

\* Bound of the model: nested Resolve activations of one thread.
MaxDepth == 4

\* ------------------------------------------------------------- handles

\* nullptr
Null == [src |-> "null", id |-> 0, impl |-> "-", args |-> <<>>]

\* Objects the application built itself and hands to RegisterInstance.
Prebuilt == {[src |-> "app", id |-> 1, impl |-> "-", args |-> <<>>]}

\* The identities of the container-built objects a handle keeps alive: the
\* object it owns and, through the handles that object's constructor
\* received, the objects those own.
RECURSIVE Owned(_)
Owned(h) ==
    IF h.src = "container"
    THEN {h.id} \cup UNION {Owned(h.args[i]) : i \in DOMAIN h.args}
    ELSE {}

\* A make_shared that hands out one and the same object every time.
make_shared_cached(live, T, args) ==
    [src |-> "container", id |-> 1, impl |-> T, args |-> args]

\* std::make_shared<T>(args...): a new object.  Its identity differs from
\* that of every object alive (the identities in `live`).
make_shared(live, T, args) ==
    [src |-> "container",
     id |-> CHOOSE n \in 1..(Cardinality(live) + 1) :
                n \notin live /\ \A k \in 1..(n - 1) : k \in live,
     impl |-> T, args |-> args]

\* Two handles are identity-equal when they own the same object.
SameObject(h1, h2) == h1.src = h2.src /\ h1.id = h2.id

\* ------------------------------------------------------------- factories

\* The lambda of RegisterInstance: returns the captured pInstance.
InstanceFactory(pInstance) ==
    [kind |-> "instance", pInstance |-> pInstance, impl |-> "-", deps |-> <<>>]

\* The lambda of RegisterType<I, T, Arguments...>.
TypeFactory(T, Arguments) ==
    [kind |-> "type", pInstance |-> Null, impl |-> T, deps |-> Arguments]

\* ------------------------------------------------------------- registry

EmptyMap == [k \in {} |-> Null]

\* Unregister<I>() that erases nothing.
UnregisterKeeps(m, key) == m

\* Unregister<I>() that clears the whole map.
UnregisterClears(m, key) == EmptyMap

\* Unregister<I>(): find, and erase when found.
Unregister(m, key) ==
    IF key \in DOMAIN m
    THEN [k \in (DOMAIN m) \ {key} |-> m[k]]
    ELSE m

\* RegisterFactory<I>() with its two statements swapped: the factory is
\* stored and then unregistered.
RegisterThenUnregister(m, key, tFactory) ==
    Unregister([k \in (DOMAIN m) \cup {key} |-> IF k = key THEN tFactory ELSE m[k]],
               key)

\* RegisterFactory<I>() that inserts without replacing (std::unordered_map
\* insert): a factory already stored for the key stays.
RegisterKeepsExisting(m, key, tFactory) ==
    IF key \in DOMAIN m
    THEN m
    ELSE [k \in (DOMAIN m) \cup {key} |-> IF k = key THEN tFactory ELSE m[k]]

\* RegisterFactory<I>(tFactory): Unregister<I>(), then m_factoryList[key] = tFactory.
RegisterFactory(m, key, tFactory) ==
    LET u == Unregister(m, key)
    IN  [k \in (DOMAIN u) \cup {key} |-> IF k = key THEN tFactory ELSE u[k]]

\* ------------------------------------------------------------- ancestor list

\* A lookup with operator[], which stores an empty factory under a key it
\* does not find.
MapAfterSubscript(m, key) ==
    IF key \in DOMAIN m
    THEN m
    ELSE [k \in DOMAIN m \cup {key} |->
             IF k = key
             THEN [kind |-> "instance", pInstance |-> Null, impl |-> "-", deps |-> <<>>]
             ELSE m[k]]

\* m_factoryList.find(key) in a const member function: the map after the
\* lookup is the map before it.
MapAfterFind(m, key) == m

\* One ancestor list for all calls: a resolve sees the keys of every
\* thread's chain.
ListShared(lists, t) == lists[1] \o lists[2]

\* The list a nested resolve of thread t is handed: the ancestor_list
\* pointer of its own top-level call.
ListPassed(lists, t) == lists[t]

\* The cycle test looking at the last element only (the direct parent).
InAncestorListBack(anc, key) == anc # <<>> /\ anc[Len(anc)] = key

\* The cycle test left out.
InAncestorListNever(anc, key) == FALSE

\* The cycle test inverted: found == end().
NotInAncestorList(anc, key) == ~ \E i \in 1..Len(anc) : anc[i] = key

\* std::find(ancestor_list->begin(), ancestor_list->end(), key) != end()
InAncestorList(anc, key) == \E i \in 1..Len(anc) : anc[i] = key

push_back(anc, key) == Append(anc, key)

\* The pop_back left out.
pop_back_missing(anc) == anc

\* pop_back() removes the last element, whatever it is.
pop_back(anc) == SubSeq(anc, 1, Len(anc) - 1)

\* The ancestor list kept from one top-level call to the next (a member
\* instead of a local).
ReusedList(old) == old

\* type_list ancestor_list; in Resolve<I>(): a local list, empty whatever
\* the list of the thread's previous top-level call held when it was left.
FreshList(old) == <<>>

\* The first lines of Resolve<I>(type_list*): what the activation does
\* before it invokes the factory.
ResolveEntry(m, anc, key) ==
    IF key \notin DOMAIN m THEN "absent"
    ELSE IF InAncestorList(anc, key) THEN "cycle"
    ELSE "invoke"

\* ------------------------------------------------------------- state

VARIABLES
    m_factoryList,  \* the registry: a function from the registered keys to factories
    frames,         \* per thread: the Resolve<I>(type_list*) activations, outermost first
    ancestor_list,  \* per thread: the type_list of the current top-level Resolve, or
                    \* of the last one as it was when that call was left
    pc,             \* per thread: "idle", "resolving" or "unwinding"
    result,         \* per thread: outcome of the last completed call; the caller holds
                    \* the handle in it until its next call completes
    lastOp          \* per interface: the last register/unregister call made for it

vars == <<m_factoryList, frames, ancestor_list, pc, result, lastOp>>

NoFactory == [kind |-> "none", pInstance |-> Null, impl |-> "-", deps |-> <<>>]

\* The outcome of a call: which call it was, its template argument I, the
\* handle it returned (Resolve), and what the call came after (see
\* Recorded and After).
Outcome(call, I, h, after) == [call |-> call, iface |-> I, h |-> h, after |-> after]

NoResult == Outcome("none", "-", Null, {})

Registrations == {"RegisterType", "RegisterInstance"}

\* A Resolve activation: its key, the handles obtained so far for the
\* factory's arguments, the positions already resolved, and the position
\* whose nested Resolve is running (0 when none is).
NewFrame(key, n) ==
    [key |-> key, args |-> [i \in 1..n |-> Null], done |-> {}, cur |-> 0]

Init ==
    /\ m_factoryList = EmptyMap
    /\ frames = [t \in Threads |-> <<>>]
    /\ ancestor_list = [t \in Threads |-> <<>>]
    /\ pc = [t \in Threads |-> "idle"]
    /\ result = [t \in Threads |-> NoResult]
    /\ lastOp = [I \in Iface |-> [op |-> "none", factory |-> NoFactory]]

AllIdle == \A t \in Threads : pc[t] = "idle"

\* The interfaces the type factory of I resolves, and the interfaces
\* reached from a set of interfaces through registered type factories.
Dependencies(m, I) ==
    IF I \in DOMAIN m /\ m[I].kind = "type"
    THEN {m[I].deps[j] : j \in DOMAIN m[I].deps}
    ELSE {}

RECURSIVE Reachable(_, _)
Reachable(m, S) ==
    LET more == S \cup UNION {Dependencies(m, I) : I \in S}
    IN  IF more = S THEN S ELSE Reachable(m, more)

\* I lies on a dependency cycle of the registered type factories.
OnCycle(m, I) == I \in Reachable(m, Dependencies(m, I))

\* What a top-level Resolve<I>() of thread t comes after, kept with its
\* outcome: "replaced" when the call before it registered I over an
\* earlier registration of I, "same" when the call before it was a
\* Resolve<I>() that returned, "cycle" when the call before it was a
\* Resolve of another interface, one that lies on a dependency cycle.
After(t, I) ==
    LET r == result[t]
        Tag(cond, name) == IF cond THEN {name} ELSE {}
    IN  Tag(r.call \in Registrations /\ r.iface = I
              /\ r.after \cap Registrations # {}, "replaced")
        \cup Tag(r.call = "returned" /\ r.iface = I, "same")
        \cup Tag(r.call = "returned" /\ r.iface # I
                   /\ OnCycle(m_factoryList, r.iface), "cycle")

\* A Resolve call of thread t completed with outcome r.
Completed(t, r) ==
    /\ result' = [result EXCEPT ![t] = r]

\* A register/unregister call for I completed: it is recorded as the last
\* one made for I, together with the kind of the call that was the last
\* one made for I before it.
Recorded(t, I, op, f) ==
    /\ lastOp' = [lastOp EXCEPT ![I] = [op |-> op, factory |-> f]]
    /\ result' = [result EXCEPT ![t] = Outcome(op, I, Null, {lastOp[I].op})]

\* ------------------------------------------------------------- mutations

RegisterType(t, I, T, Arguments) ==
    /\ AllIdle
    /\ m_factoryList' = RegisterFactory(m_factoryList, I, TypeFactory(T, Arguments))
    /\ Recorded(t, I, "RegisterType", TypeFactory(T, Arguments))
    /\ UNCHANGED <<frames, ancestor_list, pc>>

RegisterInstance(t, I, pInstance) ==
    /\ AllIdle
    /\ m_factoryList' = RegisterFactory(m_factoryList, I, InstanceFactory(pInstance))
    /\ Recorded(t, I, "RegisterInstance", InstanceFactory(pInstance))
    /\ UNCHANGED <<frames, ancestor_list, pc>>

UnregisterCall(t, I) ==
    /\ AllIdle
    /\ m_factoryList' = Unregister(m_factoryList, I)
    /\ Recorded(t, I, "Unregister", NoFactory)
    /\ UNCHANGED <<frames, ancestor_list, pc>>

\* ------------------------------------------------------------- resolve

Top(t) == frames[t][Len(frames[t])]

\* The frames of t with the top one replaced by f.
WithTop(t, f) == SubSeq(frames[t], 1, Len(frames[t]) - 1) \o <<f>>

\* Resolve<I>(): a fresh ancestor list, then Resolve<I>(&ancestor_list).
\* With no factory for I it returns nullptr at once; otherwise the key is
\* pushed and the factory is invoked.
Resolve(t, I) ==
    /\ pc[t] = "idle"
    /\ LET fresh == FreshList(ancestor_list[t])
           entry == ResolveEntry(m_factoryList, fresh, I)
       IN  IF entry = "invoke"
           THEN /\ ancestor_list' = [ancestor_list EXCEPT ![t] = push_back(fresh, I)]
                /\ frames' = [frames EXCEPT ![t] =
                                 <<NewFrame(I, Len(m_factoryList[I].deps))>>]
                /\ pc' = [pc EXCEPT ![t] = "resolving"]
                /\ UNCHANGED <<result>>
           ELSE /\ ancestor_list' = [ancestor_list EXCEPT ![t] = fresh]
                /\ Completed(t, Outcome("returned", I, Null, After(t, I)))
                /\ UNCHANGED <<frames, pc>>
    /\ m_factoryList' = MapAfterFind(m_factoryList, I)
    /\ UNCHANGED lastOp

\* The argument positions of the top activation's factory that the
\* make_shared call may evaluate next.  The order in which the arguments
\* of a function call are evaluated is unspecified: any position not yet
\* evaluated may come next, one at a time.
NextArguments(f) == (1..Len(f.args)) \ f.done

\* this->Resolve<Arguments_j>(ancestor_list) inside the type factory of
\* the top activation.
ResolveArgument(t, j) ==
    /\ pc[t] = "resolving"
    /\ LET f == Top(t)
           fac == m_factoryList[f.key]
       IN  /\ fac.kind = "type"
           /\ f.cur = 0
           /\ j \in NextArguments(f)
           /\ LET D == fac.deps[j]
                  entry == ResolveEntry(m_factoryList, ListPassed(ancestor_list, t), D)
              IN  IF entry = "invoke"
                  THEN /\ Len(frames[t]) < MaxDepth
                       /\ ancestor_list' = [ancestor_list EXCEPT ![t] =
                                               push_back(ancestor_list[t], D)]
                       /\ frames' = [frames EXCEPT ![t] =
                                        WithTop(t, [f EXCEPT !.cur = j])
                                        \o <<NewFrame(D, Len(m_factoryList[D].deps))>>]
                  ELSE /\ frames' = [frames EXCEPT ![t] =
                                        WithTop(t, [f EXCEPT !.args[j] = Null,
                                                             !.done = @ \cup {j}])]
                       /\ UNCHANGED ancestor_list
           /\ m_factoryList' = MapAfterFind(m_factoryList, fac.deps[j])
    /\ UNCHANGED <<pc, result, lastOp>>

\* The identities of the container-built objects that are alive: those
\* kept alive by a handle a caller holds or an activation has obtained.
Live ==
    UNION {Owned(result[t].h) : t \in Threads}
    \cup UNION {UNION {UNION {Owned(frames[t][k].args[i]) :
                                 i \in DOMAIN frames[t][k].args} :
                          k \in DOMAIN frames[t]} :
                   t \in Threads}

\* A factory that constructs as soon as no nested resolve is running,
\* without waiting for the arguments not yet evaluated.
FactoryReadyEarly(t) ==
    /\ pc[t] = "resolving"
    /\ Top(t).cur = 0

\* The top activation's factory has everything it needs to return.
FactoryReady(t) ==
    /\ pc[t] = "resolving"
    /\ Top(t).cur = 0
    /\ NextArguments(Top(t)) = {}

\* An instance factory that returns a copy of the registered object.
FactoryValueCopies(fac, f, live) ==
    make_shared(live, fac.impl, f.args)

\* A type factory that gives up (returns nullptr) when one of its
\* dependencies resolved to nullptr.
FactoryValueStrict(fac, f, live) ==
    IF fac.kind = "instance"
    THEN fac.pInstance
    ELSE IF \E j \in DOMAIN f.args : f.args[j] = Null
         THEN Null
         ELSE make_shared(live, fac.impl, f.args)

\* What the factory of the top activation returns (pObj).
FactoryValue(fac, f, live) ==
    IF fac.kind = "instance"
    THEN fac.pInstance
    ELSE make_shared(live, fac.impl, f.args)

\* The factory returns pObj; the activation pops the ancestor list and
\* returns static_pointer_cast<I>(pObj) to its caller: the enclosing
\* factory, or the caller of the top-level Resolve<I>().
FactoryReturns(t) ==
    /\ FactoryReady(t)
    /\ LET f == Top(t)
           fac == m_factoryList[f.key]
           pObj == FactoryValue(fac, f, Live)
           depth == Len(frames[t])
       IN  /\ ancestor_list' = [ancestor_list EXCEPT ![t] = pop_back(ancestor_list[t])]
           /\ IF depth = 1
              THEN /\ frames' = [frames EXCEPT ![t] = <<>>]
                   /\ pc' = [pc EXCEPT ![t] = "idle"]
                   /\ Completed(t, Outcome("returned", f.key, pObj, After(t, f.key)))
              ELSE /\ LET parent == frames[t][depth - 1]
                      IN  frames' = [frames EXCEPT ![t] =
                              SubSeq(frames[t], 1, depth - 2)
                              \o <<[parent EXCEPT !.args[parent.cur] = pObj,
                                                  !.done = @ \cup {parent.cur},
                                                  !.cur = 0]>>]
                   /\ UNCHANGED <<pc, result>>
    /\ UNCHANGED <<m_factoryList, lastOp>>

\* The constructor of T throws inside make_shared: the exception starts
\* to propagate out of the factory.
ConstructorThrows(t) ==
    /\ FactoryReady(t)
    /\ LET fac == m_factoryList[Top(t).key]
       IN  fac.kind = "type" /\ fac.impl \in ThrowingImpl
    /\ pc' = [pc EXCEPT ![t] = "unwinding"]
    /\ UNCHANGED <<m_factoryList, frames, ancestor_list, result, lastOp>>

\* The exception leaves the top activation.  Nothing catches it, so the
\* pop_back after the factory call is skipped; when it leaves the
\* outermost activation it leaves Resolve<I>() too and reaches the caller.
Unwind(t) ==
    /\ pc[t] = "unwinding"
    /\ LET depth == Len(frames[t])
       IN  /\ frames' = [frames EXCEPT ![t] = SubSeq(frames[t], 1, depth - 1)]
           /\ IF depth = 1
              THEN /\ pc' = [pc EXCEPT ![t] = "idle"]
                   /\ Completed(t, Outcome("thrown", frames[t][1].key, Null,
                                            After(t, frames[t][1].key)))
              ELSE UNCHANGED <<pc, result>>
    /\ UNCHANGED <<m_factoryList, ancestor_list, lastOp>>

\* ------------------------------------------------------------- specification

Next ==
    \/ \E I \in Iface, T \in Impl, Arguments \in DepLists :
           RegisterType(MainThread, I, T, Arguments)
    \/ \E I \in Iface, p \in Prebuilt \cup {Null} :
           RegisterInstance(MainThread, I, p)
    \/ \E I \in Iface : UnregisterCall(MainThread, I)
    \/ \E I \in Iface : Resolve(MainThread, I)
    \/ \E j \in ArgPositions : ResolveArgument(MainThread, j)
    \/ FactoryReturns(MainThread)
    \/ ConstructorThrows(MainThread)
    \/ Unwind(MainThread)

Spec == Init /\ [][Next]_vars

\* ------------------------------------------- resolves on a fixed registry

\* Dependency lists beyond the catalogue: the same interface declared
\* twice, and a second way to reach an interface.
FrozenDepLists == DepLists \cup {<<"B", "B">>, <<"C">>}

\* The registrations a fixed registry is made of.
FrozenFactories ==
    {TypeFactory("TA", d) : d \in FrozenDepLists}
    \cup {TypeFactory("TX", <<>>)}
    \cup {InstanceFactory(p) : p \in Prebuilt}

\* The registries a series of registrations leaves behind.
FrozenRegistries == UNION {[S -> FrozenFactories] : S \in SUBSET Iface}

\* The last call made for each interface of registry m.
LastOpOf(m) ==
    [I \in Iface |->
        IF I \in DOMAIN m
        THEN [op |-> IF m[I].kind = "type" THEN "RegisterType"
                                          ELSE "RegisterInstance",
              factory |-> m[I]]
        ELSE [op |-> "none", factory |-> NoFactory]]

\* The container after the registrations, before the first resolve.
FrozenInit ==
    /\ m_factoryList \in FrozenRegistries
    /\ lastOp = LastOpOf(m_factoryList)
    /\ frames = [t \in Threads |-> <<>>]
    /\ ancestor_list = [t \in Threads |-> <<>>]
    /\ pc = [t \in Threads |-> "idle"]
    /\ result = [t \in Threads |-> NoResult]

\* One step of the resolve in progress on thread t.
ResolveStep(t) ==
    \/ \E j \in ArgPositions : ResolveArgument(t, j)
    \/ FactoryReturns(t)
    \/ ConstructorThrows(t)
    \/ Unwind(t)

\* The main thread resolves, again and again, on a registry that no one
\* changes.
FrozenNext ==
    \/ \E I \in Iface : Resolve(MainThread, I)
    \/ \E j \in ArgPositions : ResolveArgument(MainThread, j)
    \/ FactoryReturns(MainThread)
    \/ ConstructorThrows(MainThread)
    \/ Unwind(MainThread)

FrozenSpec == FrozenInit /\ [][FrozenNext]_vars

\* A call that has been entered keeps executing.
FairSpec == FrozenSpec /\ WF_vars(ResolveStep(MainThread))

\* Registries for the concurrent runs: type bindings over the catalogue
\* of dependency lists, and an instance binding.
ConcRegistries ==
    UNION {[S -> {TypeFactory("TA", d) : d \in DepLists}
                 \cup {InstanceFactory(p) : p \in Prebuilt}] :
           S \in SUBSET Iface}

ConcInit ==
    /\ m_factoryList \in ConcRegistries
    /\ lastOp = LastOpOf(m_factoryList)
    /\ frames = [t \in Threads |-> <<>>]
    /\ ancestor_list = [t \in Threads |-> <<>>]
    /\ pc = [t \in Threads |-> "idle"]
    /\ result = [t \in Threads |-> NoResult]

\* The one top-level Resolve<I>() that thread t makes.
FirstResolve(t, I) ==
    /\ result[t] = NoResult
    /\ Resolve(t, I)

\* Two threads make one top-level Resolve each, their steps interleaved,
\* on a registry that no one changes.
ConcNext ==
    \E t \in Threads :
        \/ \E I \in Iface : FirstResolve(t, I)
        \/ \E j \in ArgPositions : ResolveArgument(t, j)
        \/ FactoryReturns(t)

ConcSpec == ConcInit /\ [][ConcNext]_vars

\* ------------------------------------------------------------- claims

\* What the register/unregister calls made so far ask the registry to
\* hold: for each interface whose last such call was a registration, the
\* factory of that registration.
Bindings ==
    [I \in {J \in Iface : lastOp[J].op \in Registrations} |-> lastOp[I].factory]

\* The top-level Resolve calls that returned (their outcome is the
\* thread's result until its next call completes; every register and
\* unregister call replaces it).
ReturnedResolves == {t \in Threads : pc[t] = "idle" /\ result[t].call = "returned"}

\* Thread t completes a top-level Resolve by returning, in this step.
Returns(t) ==
    /\ pc'[t] = "idle"
    /\ result'[t].call = "returned"
    /\ pc[t] = "resolving" \/ result'[t] # result[t]

\* C1: when the last register/unregister call made for I is Unregister<I>(),
\* or none was ever made for I, a top-level Resolve<I>() returns nullptr.
C1_UnregisteredResolvesNull ==
    \A t \in ReturnedResolves :
        lastOp[result[t].iface].op \in {"none", "Unregister"} => result[t].h = Null

\* Resolve<I>() returned nullptr after I was unregistered, while another
\* interface is still registered.
C1_Witness ==
    \E t \in ReturnedResolves :
        /\ lastOp[result[t].iface].op = "Unregister"
        /\ result[t].h = Null
        /\ m_factoryList # EmptyMap

\* C2 as stated: when the last register/unregister call made for I is a
\* registration, with any dependency list and any handle, a top-level
\* Resolve<I>() returns a handle other than nullptr.
C2_AnyRegistrationResolves ==
    \A t \in ReturnedResolves :
        lastOp[result[t].iface].op \in Registrations => result[t].h # Null

\* C2 amended: when the last register/unregister call made for I is
\* RegisterType, with any dependency list, or RegisterInstance with a
\* handle other than nullptr, a top-level Resolve<I>() that returns
\* returns a handle other than nullptr.
C2_RegisteredResolvesNonNull ==
    \A t \in ReturnedResolves :
        LET last == lastOp[result[t].iface]
        IN  \/ last.op = "RegisterType"
            \/ last.op = "RegisterInstance" /\ last.factory.pInstance # Null
            => result[t].h # Null

\* Resolve<I>() returned an object for a type registration with
\* dependencies, and one for an instance registration.
C2_Witness ==
    \E t \in ReturnedResolves :
        /\ lastOp[result[t].iface].op = "RegisterType"
        /\ lastOp[result[t].iface].factory.deps # <<>>
        /\ result[t].h # Null

\* C3 as stated: a top-level Resolve of an interface that lies on a
\* dependency cycle of type registrations returns nullptr.
C3_CycleResolvesNull ==
    \A t \in ReturnedResolves :
        OnCycle(Bindings, result[t].iface) => result[t].h = Null

\* The handle h is what resolving I yields under the registrations b when
\* the interfaces in anc are being resolved further up the chain: nullptr
\* for an interface that is not registered or is in anc, the registered
\* handle for an instance registration, and for a type registration an
\* object of the registered implementation whose constructor received,
\* position by position, what resolving each dependency yields.
RECURSIVE Yields(_, _, _, _)
Yields(b, h, I, anc) ==
    IF I \notin DOMAIN b \/ I \in anc
    THEN h = Null
    ELSE IF b[I].kind = "instance"
         THEN h = b[I].pInstance
         ELSE /\ h.src = "container"
              /\ h.impl = b[I].impl
              /\ DOMAIN h.args = DOMAIN b[I].deps
              /\ \A j \in DOMAIN h.args :
                     Yields(b, h.args[j], b[I].deps[j], anc \cup {I})

\* C3 amended: a top-level Resolve of an interface I that lies on a
\* dependency cycle of type registrations, when it returns, returns a
\* handle other than nullptr: an object of I's implementation.  nullptr is
\* what the nested resolve yields that asks for an interface already being
\* resolved further up the chain, and the object that asked is constructed
\* with it.  The ancestor list is empty when the call returns.
C3_CycleCutInside ==
    \A t \in ReturnedResolves :
        LET I == result[t].iface
        IN  OnCycle(Bindings, I) =>
                /\ result[t].h # Null
                /\ Yields(Bindings, result[t].h, I, {})
                /\ ancestor_list[t] = <<>>

\* Resolve<A>() returned for an indirect cycle A -> B -> A: a TA holding a
\* TB that holds nullptr.
C3_Witness ==
    \E t \in ReturnedResolves :
        LET I == result[t].iface
            h == result[t].h
        IN  /\ OnCycle(Bindings, I)
            /\ h.src = "container"
            /\ \E j \in DOMAIN h.args :
                   /\ h.args[j].src = "container"
                   /\ Bindings[I].deps[j] # I
                   /\ \E k \in DOMAIN h.args[j].args :
                          /\ h.args[j].args[k] = Null
                          /\ Bindings[Bindings[I].deps[j]].deps[k] = I

\* C4: while I is registered with an instance binding to handle h, every
\* resolve of I, top-level or nested as a dependency of a type-bound
\* interface, yields a handle that owns the same object as h.
C4_InstanceIdentity ==
    /\ \A t \in ReturnedResolves :
           LET last == lastOp[result[t].iface]
           IN  last.op = "RegisterInstance" =>
                   SameObject(result[t].h, last.factory.pInstance)
    /\ \A t \in Threads : \A k \in DOMAIN frames[t] :
           LET f == frames[t][k]
           IN  \A j \in f.done :
                   LET last == lastOp[lastOp[f.key].factory.deps[j]]
                   IN  last.op = "RegisterInstance" =>
                           SameObject(f.args[j], last.factory.pInstance)

\* A nested resolve of an instance-bound dependency has yielded the
\* registered object, and so did a top-level one.
C4_Witness ==
    \E t \in Threads :
        /\ pc[t] = "resolving"
        /\ result[t].call = "returned"
        /\ lastOp[result[t].iface].op = "RegisterInstance"
        /\ result[t].h \in Prebuilt
        /\ \E k \in DOMAIN frames[t] : \E j \in frames[t][k].done :
               /\ lastOp[lastOp[frames[t][k].key].factory.deps[j]].op = "RegisterInstance"
               /\ frames[t][k].args[j] \in Prebuilt

\* C5: while I is registered with a type binding, two successive top-level
\* Resolve<I>() calls return handles to two distinct objects.
C5_TypeResolvesDistinct ==
    [][\A t \in Threads :
           ( /\ Returns(t)
             /\ result[t].call = "returned"
             /\ result[t].iface = result'[t].iface
             /\ lastOp[result'[t].iface].op = "RegisterType" )
           => /\ result'[t].h # Null
              /\ result[t].h # Null
              /\ ~ SameObject(result'[t].h, result[t].h)]_vars

\* The second of two successive Resolve<I>() calls returned, I being
\* registered with a type binding.
C5_Witness ==
    \E t \in ReturnedResolves :
        /\ lastOp[result[t].iface].op = "RegisterType"
        /\ "same" \in result[t].after
        /\ result[t].h.src = "container"

\* What a factory produces, as far as its registration tells: the
\* registered handle, or an object of the registered implementation
\* constructed with one handle per declared dependency.
Produces(fac, h) ==
    IF fac.kind = "instance"
    THEN h = fac.pInstance
    ELSE /\ h.src = "container"
         /\ h.impl = fac.impl
         /\ DOMAIN h.args = DOMAIN fac.deps

\* C6: registration replaces.  After a registration of I, whether or not
\* another registration of I came before it, the registry holds for I the
\* factory of that registration and nothing else for I, and a Resolve<I>()
\* returns what that factory produces.
C6_RegistrationReplaces ==
    /\ \A I \in Iface :
           lastOp[I].op \in Registrations =>
               I \in DOMAIN m_factoryList /\ m_factoryList[I] = lastOp[I].factory
    /\ \A t \in ReturnedResolves :
           lastOp[result[t].iface].op \in Registrations =>
               Produces(lastOp[result[t].iface].factory, result[t].h)

\* Resolve<I>() returned right after a registration of I that replaced an
\* earlier registration of I.
C6_Witness ==
    \E t \in ReturnedResolves :
        /\ "replaced" \in result[t].after
        /\ lastOp[result[t].iface].op \in Registrations
        /\ result[t].h # Null

\* C7: Unregister<I>() made when the last call for I was Unregister<I>(), or
\* when no call was ever made for I, leaves the registry as it is; I is
\* absent after it.
C7_UnregisterIdempotent ==
    [][\A t \in Threads :
           ( /\ result'[t] # result[t]
             /\ result'[t].call = "Unregister"
             /\ result'[t].after \subseteq {"none", "Unregister"} )
           => /\ m_factoryList' = m_factoryList
              /\ result'[t].iface \notin DOMAIN m_factoryList']_vars

\* Unregister<I>() was made twice in a row while another interface is
\* registered.
C7_Witness ==
    \E t \in Threads :
        /\ result[t].call = "Unregister"
        /\ result[t].after = {"Unregister"}
        /\ m_factoryList # EmptyMap

\* C8: when the nested resolve for a declared dependency of a type-bound I
\* yields nullptr (the dependency is not registered, or is I itself), I's
\* implementation is still constructed, with nullptr in that position, and
\* the Resolve<I>() returns the constructed object.
C8_AbsentDependencyStillConstructs ==
    \A t \in ReturnedResolves :
        LET I == result[t].iface
            h == result[t].h
            fac == lastOp[I].factory
        IN  lastOp[I].op = "RegisterType" =>
                /\ Produces(fac, h)
                /\ \A j \in DOMAIN fac.deps :
                       (fac.deps[j] = I \/ lastOp[fac.deps[j]].op \notin Registrations)
                       => h.args[j] = Null

\* Resolve<I>() returned an object constructed with nullptr for a
\* dependency that is not registered and a real object for one that is.
C8_Witness ==
    \E t \in ReturnedResolves :
        LET I == result[t].iface
            h == result[t].h
            fac == lastOp[I].factory
        IN  /\ lastOp[I].op = "RegisterType"
            /\ h.src = "container"
            /\ \E j \in DOMAIN fac.deps :
                   lastOp[fac.deps[j]].op = "Unregister" /\ h.args[j] = Null
            /\ \E j \in DOMAIN fac.deps : h.args[j] # Null

\* C9: every top-level Resolve starts with an empty ancestor list, whatever
\* the thread's earlier resolves did, and the list is empty again when the
\* call returns; so a Resolve of an interface registered with a type or
\* with a handle other than nullptr returns a handle other than nullptr
\* also after a Resolve that ran into a cycle or threw.
C9_FreshAncestorList ==
    [][\A t \in Threads :
           /\ (pc[t] = "idle" /\ pc'[t] = "resolving")
                  => ancestor_list'[t] = <<frames'[t][1].key>>
           /\ Returns(t) =>
                  /\ ancestor_list'[t] = <<>>
                  /\ LET last == lastOp[result'[t].iface]
                     IN  \/ last.op = "RegisterType"
                         \/ last.op = "RegisterInstance" /\ last.factory.pInstance # Null
                         => result'[t].h # Null]_vars

\* Resolve<I>() returned an object right after a Resolve of another
\* interface, one that lies on a dependency cycle, while I does not.
C9_Witness ==
    \E t \in ReturnedResolves :
        /\ "cycle" \in result[t].after
        /\ ~ OnCycle(Bindings, result[t].iface)
        /\ result[t].h.src = "container"
        /\ ancestor_list[t] = <<>>

\* C10 as stated: the nested resolves of a type factory run in declaration
\* order: the resolve of the i-th dependency has completed before the
\* resolve of the j-th begins, whenever i < j.
C10_DeclarationOrder ==
    \A t \in Threads : \A k \in DOMAIN frames[t] :
        LET f == frames[t][k]
        IN  \A j \in f.done \cup ({f.cur} \ {0}) :
                \A i \in 1..(j - 1) : i \in f.done

\* The keys of the first k activations of thread t, outermost first.
Keys(t, k) == [i \in 1..k |-> frames[t][i].key]

NoDuplicates(seq) == \A i, j \in DOMAIN seq : i # j => seq[i] # seq[j]

\* C11: the cycle guard.  A nested resolve of an interface that is already
\* in the ancestor list yields nullptr in its position without a new
\* activation; so no ancestor list holds an interface twice, and no
\* interface has two activations in progress on one chain.
C11_CycleGuard ==
    \A t \in Threads :
        /\ NoDuplicates(ancestor_list[t])
        /\ NoDuplicates(Keys(t, Len(frames[t])))
        /\ \A k \in DOMAIN frames[t] :
               LET f == frames[t][k]
               IN  \A j \in f.done :
                       (\E i \in 1..k : frames[t][i].key = m_factoryList[f.key].deps[j])
                       => f.args[j] = Null

\* In an indirect cycle the guard has fired: the innermost of two
\* activations has nullptr for a dependency that is the outermost's key.
C11_Witness ==
    \E t \in Threads :
        /\ pc[t] = "resolving"
        /\ Len(frames[t]) = 2
        /\ Len(ancestor_list[t]) = 2
        /\ \E j \in frames[t][2].done :
               /\ m_factoryList[frames[t][2].key].deps[j] = frames[t][1].key
               /\ frames[t][2].args[j] = Null

\* C12: the ancestor list is restored on every exit path of a resolve,
\* the throwing one included: whenever an activation has been left, by a
\* return or by an exception, the key it pushed is gone from the list, so
\* the list is as long as the chain of activations still in progress.
C12_RestoredOnEveryExit ==
    \A t \in Threads : Len(ancestor_list[t]) = Len(frames[t])

\* The chain of activations in progress, and with it the ancestor list,
\* is never longer than the number of registered interfaces.
DepthBounded ==
    \A t \in Threads :
        pc[t] # "idle" =>
            /\ Len(frames[t]) <= Cardinality(DOMAIN m_factoryList)
            /\ Len(ancestor_list[t]) <= Cardinality(DOMAIN m_factoryList)

\* C13: every top-level Resolve terminates, with or without cycles in the
\* registry: its recursion depth never exceeds the number of registered
\* interfaces, and a resolve in progress always comes to its end.
C13_ResolveTerminates ==
    /\ []DepthBounded
    /\ \A t \in Threads : (pc[t] # "idle") ~> (pc[t] = "idle")

\* A resolve as deep as the registry is large, on a cycle through all of
\* it, whose innermost activation has already been refused a further
\* descent.
C13_Witness ==
    \E t \in Threads :
        /\ pc[t] = "resolving"
        /\ Len(frames[t]) = 3
        /\ Cardinality(DOMAIN m_factoryList) = 3
        /\ OnCycle(m_factoryList, frames[t][1].key)
        /\ \E j \in frames[t][3].done :
               /\ frames[t][3].args[j] = Null
               /\ m_factoryList[frames[t][3].key].deps[j] \in DOMAIN m_factoryList

\* The number of container-built objects met when walking the handles of
\* a sequence and, through each object, the handles its constructor got.
RECURSIVE Built(_)
Built(hs) ==
    IF hs = <<>>
    THEN 0
    ELSE (IF Head(hs).src = "container" THEN 1 + Built(Head(hs).args) ELSE 0)
         + Built(Tail(hs))

\* The handles the activations of a chain have obtained so far.
RECURSIVE FrameArgs(_)
FrameArgs(fs) ==
    IF fs = <<>> THEN <<>> ELSE Head(fs).args \o FrameArgs(Tail(fs))

\* Every handle held: by the callers, and by the activations in progress.
Held ==
    <<result[1].h, result[2].h>> \o FrameArgs(frames[1]) \o FrameArgs(frames[2])

\* No object is met twice: every invocation of a type factory has built
\* an object of its own.
NoObjectShared == Built(Held) = Cardinality(Live)

\* C14: no memoisation.  Every invocation of a type factory, top-level or
\* nested, builds an object distinct from every object built before that
\* is still held: an interface reached twice inside one resolve gets two
\* objects, and a resolve that returns shares no object with the result of
\* the resolve before it.
C14_NoMemoisation ==
    [][/\ NoObjectShared'
       /\ \A t \in Threads :
              (Returns(t) /\ result[t].call = "returned")
              => Owned(result'[t].h) \cap Owned(result[t].h) = {}]_vars

\* A second Resolve<I>() in a row returned an object whose first
\* dependency, a type-bound interface, was reached a second time through
\* its second dependency: two distinct objects were built for it.
C14_Witness ==
    \E t \in ReturnedResolves :
        LET h == result[t].h
            deps == lastOp[result[t].iface].factory.deps
        IN  /\ "same" \in result[t].after
            /\ h.src = "container"
            /\ Len(h.args) = 2
            /\ h.args[1].src = "container"
            /\ h.args[2].src = "container"
            /\ Len(h.args[2].args) = 1
            /\ lastOp[deps[2]].factory.deps[1] = deps[1]
            /\ h.args[2].args[1].src = "container"
            /\ h.args[2].args[1].id # h.args[1].id

\* The innermost activation of thread t returns to its caller in this step.
ActivationReturns(t) ==
    /\ pc[t] = "resolving"
    /\ Len(frames'[t]) = Len(frames[t]) - 1

\* What it returns: the result of the call, or the argument its parent
\* was waiting for.
ReturnedHandle(t) ==
    IF Len(frames[t]) = 1
    THEN result'[t].h
    ELSE LET d == Len(frames[t]) - 1
         IN  frames'[t][d].args[frames[t][d].cur]

\* C15: a type-bound implementation is constructed only after every one
\* of its declared dependency resolves has returned, each with a handle
\* or nullptr, and the handle the i-th resolve returned is the i-th
\* constructor argument.
C15_ConstructedAfterDependencies ==
    [][\A t \in Threads :
           LET f == frames[t][Len(frames[t])]
               fac == m_factoryList[f.key]
               v == ReturnedHandle(t)
               chain == {frames[t][k].key : k \in DOMAIN frames[t]}
           IN  (ActivationReturns(t) /\ fac.kind = "type")
               => /\ f.done = DOMAIN fac.deps
                  /\ f.cur = 0
                  /\ \A j \in DOMAIN fac.deps :
                         Yields(m_factoryList, f.args[j], fac.deps[j], chain)
                  /\ v.src = "container"
                  /\ v.impl = fac.impl
                  /\ v.args = f.args]_vars

\* Resolve<I>() returned an object for I -> [D1, D2], D1 bound to an
\* instance and D2 to a type: it holds the registered object in the first
\* position and a constructed one in the second.
C15_Witness ==
    \E t \in ReturnedResolves :
        LET h == result[t].h
            fac == lastOp[result[t].iface].factory
        IN  /\ lastOp[result[t].iface].op = "RegisterType"
            /\ Len(fac.deps) = 2
            /\ lastOp[fac.deps[1]].op = "RegisterInstance"
            /\ lastOp[fac.deps[2]].op = "RegisterType"
            /\ h.src = "container"
            /\ h.args[1] \in Prebuilt
            /\ h.args[2].src = "container"

\* Thread t takes a step of a Resolve call: it is inside one before or
\* after the step, or the step is a whole Resolve that returned at once.
InResolve(t) ==
    \/ pc[t] # "idle"
    \/ pc'[t] # "idle"
    \/ result'[t] # result[t] /\ result'[t].call = "returned"

\* Whether Resolve<I>() on registry m yields nullptr, told from m alone.
AbsentIn(m, I) ==
    \/ I \notin DOMAIN m
    \/ m[I].kind = "instance" /\ m[I].pInstance = Null

\* C16: Resolve is read-only on the container.  No step of a Resolve,
\* whether it ends with an object, with nullptr or in a cycle, changes the
\* registry; and whether a top-level Resolve<I>() returns nullptr is told
\* by the registry of the call alone, whatever resolves came before.
C16_ResolveReadOnly ==
    [][\A t \in Threads :
           /\ InResolve(t) => m_factoryList' = m_factoryList
           /\ Returns(t) =>
                  (result'[t].h = Null <=> AbsentIn(m_factoryList, result'[t].iface))]_vars

\* After a Resolve on a dependency cycle, a Resolve of an interface that
\* is not registered returned nullptr, and the registrations are all
\* still there.
C16_Witness ==
    \E t \in ReturnedResolves :
        /\ "cycle" \in result[t].after
        /\ result[t].h = Null
        /\ result[t].iface \notin DOMAIN m_factoryList
        /\ DOMAIN m_factoryList = DOMAIN Bindings
        /\ Cardinality(DOMAIN m_factoryList) = 2

\* C17: two top-level resolves whose steps interleave, on a registry that
\* is not mutated, use separate ancestor lists.  Each list holds the keys
\* of its own thread's chain and nothing else, so an interface in progress
\* in one thread never makes the cycle test fire in the other; every
\* dependency resolved so far, and every result, is what the same resolve
\* yields when it runs alone.
C17_SeparateAncestorLists ==
    \A t \in Threads :
        /\ ancestor_list[t] = Keys(t, Len(frames[t]))
        /\ \A k \in DOMAIN frames[t] :
               LET f == frames[t][k]
               IN  \A j \in f.done :
                       Yields(m_factoryList, f.args[j], m_factoryList[f.key].deps[j],
                              {frames[t][i].key : i \in 1..k})
        /\ t \in ReturnedResolves =>
               Yields(m_factoryList, result[t].h, result[t].iface, {})

\* While an interface is in progress in one thread, a nested resolve of
\* the same interface in the other thread has returned an object.
C17_Witness ==
    \E t, u \in Threads :
        /\ t # u
        /\ pc[t] = "resolving"
        /\ pc[u] = "resolving"
        /\ \E k \in DOMAIN frames[u] : \E j \in frames[u][k].done :
               /\ frames[u][k].args[j].src = "container"
               /\ \E i \in DOMAIN ancestor_list[t] :
                      ancestor_list[t][i] = m_factoryList[frames[u][k].key].deps[j]

\* C18: whenever a nested resolve can be entered, the ancestor list holds
\* exactly the keys of the activations in progress, outermost first, and
\* neither a sibling nor anything of a completed subtree.  So whether a
\* declared dependency resolved to nullptr is told by the registry and the
\* chain above it alone, in whatever order the siblings were evaluated;
\* an interface declared twice gets the same outcome in both positions.
C18_ListIsTheChain ==
    \A t \in Threads :
        pc[t] = "resolving" =>
            /\ ancestor_list[t] = Keys(t, Len(frames[t]))
            /\ \A k \in DOMAIN frames[t] :
                   LET f == frames[t][k]
                       deps == m_factoryList[f.key].deps
                   IN  /\ \A j \in f.done :
                              f.args[j] = Null <=>
                                  \/ AbsentIn(m_factoryList, deps[j])
                                  \/ \E i \in 1..k : frames[t][i].key = deps[j]
                       /\ \A i, j \in f.done :
                              deps[i] = deps[j] =>
                                  (f.args[i] = Null <=> f.args[j] = Null)

\* An activation that declares one interface twice has resolved both
\* positions, the second one after the first one's subtree completed, and
\* holds an object in each.
C18_Witness ==
    \E t \in Threads : \E k \in DOMAIN frames[t] :
        LET f == frames[t][k]
            deps == m_factoryList[f.key].deps
        IN  /\ pc[t] = "resolving"
            /\ Len(deps) = 2
            /\ deps[1] = deps[2]
            /\ f.done = {1, 2}
            /\ f.args[1].src = "container"
            /\ f.args[2].src = "container"
            /\ f.args[1].args # <<>>

\* Thread t completes a register or unregister call in this step.
Mutates(t) ==
    /\ pc[t] = "idle"
    /\ pc'[t] = "idle"
    /\ result'[t].call \in Registrations \cup {"Unregister"}

\* C19: RegisterType<I>, RegisterInstance<I> and Unregister<I> change the
\* entry of I only: every other interface is registered after the call
\* exactly when it was before, and with the same factory.
C19_OnlyOwnEntryChanges ==
    [][\A t \in Threads :
           Mutates(t) =>
               \A J \in Iface \ {result'[t].iface} :
                   /\ J \in DOMAIN m_factoryList' <=> J \in DOMAIN m_factoryList
                   /\ J \in DOMAIN m_factoryList => m_factoryList'[J] = m_factoryList[J]]_vars

\* Unregister<I>() has removed a registered I while the two other
\* interfaces, one bound to a type and one to an instance, are still
\* registered as their last registration left them.
C19_Witness ==
    \E t \in Threads :
        /\ pc[t] = "idle"
        /\ result[t].call = "Unregister"
        /\ result[t].after \cap Registrations # {}
        /\ DOMAIN m_factoryList = Iface \ {result[t].iface}
        /\ \A J \in DOMAIN m_factoryList : m_factoryList[J] = lastOp[J].factory
        /\ \E J \in DOMAIN m_factoryList : m_factoryList[J].kind = "type"
        /\ \E J \in DOMAIN m_factoryList : m_factoryList[J].kind = "instance"

====
